---------------------------- MODULE Spec2Model ----------------------------
(***************************************************************************)
(* Model of math_parser (src/main.rs): the character lexer, the Pratt      *)
(* parser parse_expression, Expression::is_asign, Expression::eval and the *)
(* read-eval loop of main.                                                 *)
(*                                                                         *)
(* A line of text is a sequence of one-character strings.  The character   *)
(* U+221A (the root sign) is written "sqrt", since module text is ASCII.   *)
(* An input line is modelled without its trailing newline, which           *)
(* Lexer::new filters out as whitespace anyway.                            *)
(***************************************************************************)
EXTENDS Integers, Sequences, FiniteSets, TLC

VARIABLES
    input,      \* main: the line read (src/main.rs:161-165)
    tokens,     \* Lexer.tokens: the reversed token vector (src/main.rs:10)
    stack,      \* the activation records of parse_expression, innermost last
    ret,        \* the value returned by the last parse_expression that returned
    expr,       \* main: expr (src/main.rs:169)
    pc,         \* where main is: "lexer", "parse", "dispatch", "read", "panic", "exit"
    err,        \* the panic that ended the process, "" if none
    variables,  \* main: variables, the HashMap<String, f32> (src/main.rs:157)
    out,        \* the values printed by println!, oldest first (src/main.rs:176)
    nlines,     \* number of lines read so far
    calls,      \* number of parse_expression calls made for the current line
    lastCall,   \* the last Lexer method called directly: "new", "peek", "next"
    lastRet,    \* the token that call returned
    consumed    \* the tokens returned by direct next calls, oldest first

vars == <<input, tokens, stack, ret, expr, pc, err, variables, out, nlines,
          calls, lastCall, lastRet, consumed>>

-----------------------------------------------------------------------------
(* Bounds of the model *)

MaxLen == 4          \* longest line of SpecLines, over LineChars
MaxAtomLen == 1      \* longest atom text in the three-atom lines a op1 b op2 c
MaxArithLen == 5     \* longest arithmetic line, over ArithChars
MaxLineLen == 3      \* longest line of a session, over SessionChars
MaxLines == 3        \* lines read in a session
MaxFairLen == 3      \* longest line of FairSpec, over LineChars
MaxLexLen == 3       \* longest line handed to the bare lexer

-----------------------------------------------------------------------------
(* Characters and tokens: enum Token, Lexer (src/main.rs:2-34) *)

Digits == {"0", "1", "2", "3", "4", "5", "6", "7", "8", "9"}
Letters ==
    {"a", "b", "c", "d", "e", "f", "g", "h", "i", "j", "k", "l", "m",
     "n", "o", "p", "q", "r", "s", "t", "u", "v", "w", "x", "y", "z",
     "A", "B", "C", "D", "E", "F", "G", "H", "I", "J", "K", "L", "M",
     "N", "O", "P", "Q", "R", "S", "T", "U", "V", "W", "X", "Y", "Z"}

is_ascii_whitespace(c) == c \in {" ", "\t", "\n", "\f", "\r"}

Atom(c) == [k |-> "Atom", c |-> c]
Op(c) == [k |-> "Op", c |-> c]
Eof == [k |-> "Eof", c |-> ""]

Reverse(s) == [i \in 1..Len(s) |-> s[Len(s) + 1 - i]]

\* the closure of the map in Lexer::new
ClassifyChar(c) == IF c \in Digits \cup Letters THEN Atom(c) ELSE Op(c)

\* Lexer::new: filter the whitespace, classify each character, reverse
LexerNew(line) ==
    LET kept == SelectSeq(line, LAMBDA c : ~is_ascii_whitespace(c))
    IN  Reverse([i \in 1..Len(kept) |-> ClassifyChar(kept[i])])

\* a peek at the wrong end of the vector
LexerPeekFirst(toks) == IF toks = <<>> THEN Eof ELSE toks[1]

\* Lexer::peek: tokens.last().copied().unwrap_or(Eof)
LexerPeek(toks) == IF toks = <<>> THEN Eof ELSE toks[Len(toks)]

\* a next that leaves an opening parenthesis in place
LexerPopKeepParen(toks) ==
    IF toks = <<>> \/ toks[Len(toks)] = Op("(") THEN toks
    ELSE SubSeq(toks, 1, Len(toks) - 1)

\* Lexer::next, the vector after tokens.pop()
LexerPop(toks) == IF toks = <<>> THEN toks ELSE SubSeq(toks, 1, Len(toks) - 1)

\* Lexer::next, the token returned: tokens.pop().unwrap_or(Eof)
LexerNext(toks) == IF toks = <<>> THEN Eof ELSE toks[Len(toks)]

-----------------------------------------------------------------------------
(* enum Expression (src/main.rs:36-39) *)

ExprAtom(s) == [t |-> "Atom", s |-> s]
ExprOperation(op, l, r) == [t |-> "Operation", op |-> op, operands |-> <<l, r>>]
NoExpr == [t |-> "None"]

-----------------------------------------------------------------------------
(* infix_binding_power (src/main.rs:56-65).  The powers are the source's   *)
(* f32 literals times ten: 0.0, 0.1, 0.2, 1.0, 1.1, 2.0, 2.1, 3.0, 3.1,    *)
(* 4.0 and 4.1 are pairwise distinct as f32 and ordered as the integers    *)
(* 0, 1, 2, 10, 11, 20, 21, 30, 31, 40, 41 are, and the parser only        *)
(* compares them.  ok = FALSE is the panic "bad op".                       *)

BP(l, r) == [ok |-> TRUE, l |-> l, r |-> r]

\* the table with the rows of + - and * / exchanged
infix_binding_power_swapped(op) ==
    CASE op = "=" -> BP(2, 1)
      [] op \in {"+", "-"} -> BP(20, 21)
      [] op \in {"*", "/"} -> BP(10, 11)
      [] op \in {"^", "sqrt"} -> BP(31, 30)
      [] op = "." -> BP(40, 41)
      [] OTHER -> [ok |-> FALSE, l |-> 0, r |-> 0]

\* infix_binding_power
infix_binding_power(op) ==
    CASE op = "=" -> BP(2, 1)
      [] op \in {"+", "-"} -> BP(10, 11)
      [] op \in {"*", "/"} -> BP(20, 21)
      [] op \in {"^", "sqrt"} -> BP(31, 30)
      [] op = "." -> BP(40, 41)
      [] OTHER -> [ok |-> FALSE, l |-> 0, r |-> 0]

\* the min_bp of the two top-level calls: from_str and the "(" branch pass 0.0
ZeroBp == 0


-----------------------------------------------------------------------------
(* parse_expression (src/main.rs:67-107), one activation record per call.  *)
(* A record is at "start" (before line 68), "atom" (in the loop of lines   *)
(* 72-81), "paren" (waiting for the call of line 85), "loop" (at line 92)  *)
(* or "rhs" (waiting for the call of line 103).                            *)

Frame(min_bp) ==
    [min_bp |-> min_bp, at |-> "start", lhs |-> NoExpr, atom |-> <<>>, op |-> ""]

top == stack[Len(stack)]
SetTop(f) == [stack EXCEPT ![Len(stack)] = f]
Running(at) == pc = "parse" /\ stack # <<>> /\ top.at = at

\* what the match of lines 68-90 does with the token lexer.next() returned
PrefixKind(t) ==
    CASE t.k = "Atom" -> "atom"
      [] t = Op("(") -> "paren"
      [] OTHER -> "bad token"

\* lines 92-101: what one iteration of the operator loop does with the
\* token lexer.peek() returned
OperatorLoopKind(t, min_bp) ==
    CASE t = Eof -> "break"
      [] t = Op(")") -> "break"
      [] t.k = "Op" ->
            IF ~infix_binding_power(t.c).ok THEN "bad op"
            ELSE IF infix_binding_power(t.c).l < min_bp THEN "break"
            ELSE "infix"
      [] OTHER -> "bad token"

\* the left power handed on instead of the right one
RhsMinBpLeft(op) == infix_binding_power(op).l

\* line 103: the min_bp handed to the call that parses the right operand
RhsMinBp(op) == infix_binding_power(op).r

Panic(msg) ==
    /\ pc' = "panic"
    /\ err' = msg

LexerIdle == UNCHANGED <<lastCall, lastRet, consumed>>

\* lines 68-71: the first token is an atom character
PrefixAtom ==
    /\ Running("start")
    /\ PrefixKind(LexerNext(tokens)) = "atom"
    /\ tokens' = LexerPop(tokens)
    /\ stack' = SetTop([top EXCEPT !.at = "atom", !.atom = <<LexerNext(tokens).c>>])
    /\ UNCHANGED <<input, ret, expr, pc, err, variables, out, nlines, calls>>
    /\ LexerIdle

\* lines 73-77: the next token is an atom character too, take it
AtomLoop ==
    /\ Running("atom")
    /\ LexerPeek(tokens).k = "Atom"
    /\ tokens' = LexerPop(tokens)
    /\ stack' = SetTop([top EXCEPT !.atom = Append(top.atom, LexerPeek(tokens).c)])
    /\ UNCHANGED <<input, ret, expr, pc, err, variables, out, nlines, calls>>
    /\ LexerIdle

\* lines 78-82: an operator or the end of the line ends the atom
AtomDone ==
    /\ Running("atom")
    /\ LexerPeek(tokens).k # "Atom"
    /\ stack' = SetTop([top EXCEPT !.at = "loop", !.lhs = ExprAtom(top.atom)])
    /\ UNCHANGED <<input, tokens, ret, expr, pc, err, variables, out, nlines, calls>>
    /\ LexerIdle

\* lines 84-85: "(" calls parse_expression(lexer, 0.0)
PrefixParen ==
    /\ Running("start")
    /\ PrefixKind(LexerNext(tokens)) = "paren"
    /\ tokens' = LexerPop(tokens)
    /\ stack' = Append(SetTop([top EXCEPT !.at = "paren"]), Frame(ZeroBp))
    /\ calls' = calls + 1
    /\ UNCHANGED <<input, ret, expr, pc, err, variables, out, nlines>>
    /\ LexerIdle

\* line 89: any other first token, Eof included, panics
PrefixBad ==
    /\ Running("start")
    /\ PrefixKind(LexerNext(tokens)) = "bad token"
    /\ tokens' = LexerPop(tokens)
    /\ Panic("bad token")
    /\ UNCHANGED <<input, stack, ret, expr, variables, out, nlines, calls>>
    /\ LexerIdle

\* lines 86-87: the call of line 85 returned; assert_eq!(lexer.next(), Op(')'))
ParenClose ==
    /\ Running("paren")
    /\ tokens' = LexerPop(tokens)
    /\ IF LexerNext(tokens) = Op(")")
       THEN /\ stack' = SetTop([top EXCEPT !.at = "loop", !.lhs = ret])
            /\ UNCHANGED <<pc, err>>
       ELSE /\ Panic("assertion failed")
            /\ UNCHANGED stack
    /\ UNCHANGED <<input, ret, expr, variables, out, nlines, calls>>
    /\ LexerIdle

\* lines 93, 94, 99-100 and 106: leave the loop and return lhs; the
\* outermost return is the one of from_str (line 112), into expr (line 169)
LoopBreak ==
    /\ Running("loop")
    /\ OperatorLoopKind(LexerPeek(tokens), top.min_bp) = "break"
    /\ stack' = SubSeq(stack, 1, Len(stack) - 1)
    /\ ret' = top.lhs
    /\ IF Len(stack) = 1
       THEN pc' = "dispatch" /\ expr' = top.lhs
       ELSE UNCHANGED <<pc, expr>>
    /\ UNCHANGED <<input, tokens, err, variables, out, nlines, calls>>
    /\ LexerIdle

\* line 96 (an atom character where an operator is due) and line 63 (an
\* operator infix_binding_power does not know)
LoopBad ==
    /\ Running("loop")
    /\ OperatorLoopKind(LexerPeek(tokens), top.min_bp) \in {"bad token", "bad op"}
    /\ Panic(OperatorLoopKind(LexerPeek(tokens), top.min_bp))
    /\ UNCHANGED <<input, tokens, stack, ret, expr, variables, out, nlines, calls>>
    /\ LexerIdle

\* lines 98-103: take the operator and call parse_expression(lexer, r_bp)
LoopInfix ==
    /\ Running("loop")
    /\ OperatorLoopKind(LexerPeek(tokens), top.min_bp) = "infix"
    /\ tokens' = LexerPop(tokens)
    /\ stack' = Append(SetTop([top EXCEPT !.at = "rhs", !.op = LexerPeek(tokens).c]),
                       Frame(RhsMinBp(LexerPeek(tokens).c)))
    /\ calls' = calls + 1
    /\ UNCHANGED <<input, ret, expr, pc, err, variables, out, nlines>>
    /\ LexerIdle

\* line 104: the call of line 103 returned
Combine ==
    /\ Running("rhs")
    /\ stack' = SetTop([top EXCEPT !.at = "loop",
                                   !.lhs = ExprOperation(top.op, top.lhs, ret)])
    /\ UNCHANGED <<input, tokens, ret, expr, pc, err, variables, out, nlines, calls>>
    /\ LexerIdle

parse_expression ==
    \/ PrefixAtom
    \/ AtomLoop
    \/ AtomDone
    \/ PrefixParen
    \/ PrefixBad
    \/ ParenClose
    \/ LoopBreak
    \/ LoopBad
    \/ LoopInfix
    \/ Combine

-----------------------------------------------------------------------------
(* f32 values.  A value is tracked exactly while it is an integer of       *)
(* magnitude at most 2^24, the range in which every integer is an f32 and  *)
(* +, -, * and exact / are computed without rounding; every other f32      *)
(* (a fraction, a rounded result, an infinity, a NaN) is the one untracked *)
(* value Other, and an operation on Other gives Other.  powf is taken to   *)
(* return the exact power when that power is a tracked integer.            *)

ExactMax == 16777216

IntV(n) == [k |-> "int", n |-> n]
Other == [k |-> "other", n |-> 0]
Abs(n) == IF n < 0 THEN -n ELSE n
Exact(n) == IF Abs(n) <= ExactMax THEN IntV(n) ELSE Other

F32Mul(a, b) ==
    IF a.k # "int" \/ b.k # "int" THEN Other
    ELSE IF a.n = 0 \/ b.n = 0 THEN IntV(0)
    ELSE IF Abs(a.n) <= ExactMax \div Abs(b.n) THEN IntV(a.n * b.n)
    ELSE Other

F32Add(a, b) == IF a.k # "int" \/ b.k # "int" THEN Other ELSE Exact(a.n + b.n)

F32Sub(a, b) == IF a.k # "int" \/ b.k # "int" THEN Other ELSE Exact(a.n - b.n)

F32Div(a, b) ==
    IF a.k # "int" \/ b.k # "int" \/ b.n = 0 THEN Other
    ELSE IF Abs(a.n) % Abs(b.n) # 0 THEN Other
    ELSE IF (a.n < 0) = (b.n < 0) THEN IntV(Abs(a.n) \div Abs(b.n))
    ELSE IntV(-(Abs(a.n) \div Abs(b.n)))

RECURSIVE Product(_, _)
Product(a, e) == IF e = 0 THEN IntV(1) ELSE F32Mul(a, Product(a, e - 1))

\* a to the e, e >= 0; beyond the 24th power only 0, 1 and -1 stay tracked
NatPow(a, e) ==
    IF e = 0 \/ a.n = 1 THEN IntV(1)
    ELSE IF a.n = 0 THEN IntV(0)
    ELSE IF a.n = -1 THEN IntV(IF e % 2 = 0 THEN 1 ELSE -1)
    ELSE IF e > 24 THEN Other
    ELSE Product(a, e)

\* f32::powf
F32Powf(a, b) ==
    IF a.k # "int" \/ b.k # "int" THEN Other
    ELSE IF b.n >= 0 THEN NatPow(a, b.n)
    ELSE IF a.n = 1 THEN IntV(1)
    ELSE IF a.n = -1 THEN IntV(IF b.n % 2 = 0 THEN 1 ELSE -1)
    ELSE Other

\* lhs.powf(1.0 / rhs)
F32Root(a, b) ==
    IF a.k # "int" \/ b.k # "int" THEN Other
    ELSE IF a.n = 1 THEN IntV(1)
    ELSE IF b.n = 1 THEN a
    ELSE IF b.n = -1 THEN F32Powf(a, b)
    ELSE IF b.n = 0 THEN (IF a.n = -1 THEN IntV(1) ELSE IF a.n = 0 THEN IntV(0) ELSE Other)
    ELSE Other

-----------------------------------------------------------------------------
(* str::parse::<f32> on an atom text, a run of ASCII letters and digits:   *)
(* it accepts a run of digits, a run of digits followed by e or E and a    *)
(* run of digits, and inf, infinity and nan in any case.                   *)

DigitValue(c) ==
    CASE c = "0" -> 0 [] c = "1" -> 1 [] c = "2" -> 2 [] c = "3" -> 3 [] c = "4" -> 4
      [] c = "5" -> 5 [] c = "6" -> 6 [] c = "7" -> 7 [] c = "8" -> 8 [] c = "9" -> 9

AllDigits(s) == s # <<>> /\ \A i \in 1..Len(s) : s[i] \in Digits

RECURSIVE Decimal(_)
Decimal(s) ==
    IF s = <<>> THEN IntV(0)
    ELSE F32Add(F32Mul(Decimal(SubSeq(s, 1, Len(s) - 1)), IntV(10)),
                IntV(DigitValue(s[Len(s)])))

ToLower(c) ==
    CASE c = "I" -> "i" [] c = "N" -> "n" [] c = "F" -> "f" [] c = "T" -> "t"
      [] c = "Y" -> "y" [] c = "A" -> "a" [] OTHER -> c

Lowered(s) == [i \in 1..Len(s) |-> ToLower(s[i])]

ExponentAt(s) == {i \in 1..Len(s) : s[i] \in {"e", "E"}}

ParseF32(s) ==
    IF AllDigits(s) THEN [ok |-> TRUE, v |-> Decimal(s)]
    ELSE IF Lowered(s) \in {<<"i", "n", "f">>, <<"n", "a", "n">>,
                            <<"i", "n", "f", "i", "n", "i", "t", "y">>}
    THEN [ok |-> TRUE, v |-> Other]
    ELSE IF \E i \in ExponentAt(s) :
                AllDigits(SubSeq(s, 1, i - 1)) /\ AllDigits(SubSeq(s, i + 1, Len(s)))
    THEN LET i == CHOOSE i \in ExponentAt(s) :
                    AllDigits(SubSeq(s, 1, i - 1)) /\ AllDigits(SubSeq(s, i + 1, Len(s)))
             e == Decimal(SubSeq(s, i + 1, Len(s)))
             scale == IF e.k = "int" /\ e.n <= 8 THEN NatPow(IntV(10), e.n) ELSE Other
         IN  [ok |-> TRUE, v |-> F32Mul(Decimal(SubSeq(s, 1, i - 1)), scale)]
    ELSE [ok |-> FALSE, v |-> Other]

-----------------------------------------------------------------------------
(* Expression::eval (src/main.rs:131-153).  st is "ok", or the panic:      *)
(* "Undefined variable" (line 137) or "Bad operator" (line 149).           *)

Ok(v) == [st |-> "ok", v |-> v]
Failed(msg) == [st |-> msg, v |-> Other]

\* the match with - computed as +
ApplyNoSub(op, l, r) ==
    CASE op = "+" -> Ok(F32Add(l, r))
      [] op = "-" -> Ok(F32Add(l, r))
      [] op = "*" -> Ok(F32Mul(l, r))
      [] op = "/" -> Ok(F32Div(l, r))
      [] op = "^" -> Ok(F32Powf(l, r))
      [] op = "sqrt" -> Ok(F32Root(l, r))
      [] OTHER -> Failed("Bad operator")

\* lines 142-150: the match on the operator
Apply(op, l, r) ==
    CASE op = "+" -> Ok(F32Add(l, r))
      [] op = "-" -> Ok(F32Sub(l, r))
      [] op = "*" -> Ok(F32Mul(l, r))
      [] op = "/" -> Ok(F32Div(l, r))
      [] op = "^" -> Ok(F32Powf(l, r))
      [] op = "sqrt" -> Ok(F32Root(l, r))
      [] OTHER -> Failed("Bad operator")

\* the lookup tried before the numeric parse
EvalAtomLookupFirst(s, env) ==
    IF s \in DOMAIN env THEN Ok(env[s])
    ELSE IF ParseF32(s).ok THEN Ok(ParseF32(s).v)
    ELSE Failed("Undefined variable")

\* lines 133-138: a number if the text parses as one, a variable otherwise
EvalAtom(s, env) ==
    IF ParseF32(s).ok THEN Ok(ParseF32(s).v)
    ELSE IF s \in DOMAIN env THEN Ok(env[s])
    ELSE Failed("Undefined variable")

RECURSIVE eval(_, _)
eval(e, env) ==
    IF e.t = "Atom" THEN EvalAtom(e.s, env)
    ELSE LET lhs == eval(e.operands[1], env)
         IN  IF lhs.st # "ok" THEN lhs
             ELSE LET rhs == eval(e.operands[2], env)
                  IN  IF rhs.st # "ok" THEN rhs
                      ELSE Apply(e.op, lhs.v, rhs.v)

-----------------------------------------------------------------------------
(* Expression::is_asign (src/main.rs:115-129).  kind is "Some", "None" or  *)
(* "Panic", the unreachable!() of line 122.                                *)

AsignResult(kind, name, rhs) == [kind |-> kind, name |-> name, rhs |-> rhs]

\* None in place of the unreachable!()
is_asign_lenient(e) ==
    IF e.t = "Atom" THEN AsignResult("None", <<>>, NoExpr)
    ELSE IF e.op = "="
         THEN IF e.operands[1].t = "Atom"
              THEN AsignResult("Some", e.operands[1].s, e.operands[2])
              ELSE AsignResult("None", <<>>, NoExpr)
         ELSE AsignResult("None", <<>>, NoExpr)

\* Expression::is_asign
is_asign(e) ==
    IF e.t = "Atom" THEN AsignResult("None", <<>>, NoExpr)
    ELSE IF e.op = "="
         THEN IF e.operands[1].t = "Atom"
              THEN AsignResult("Some", e.operands[1].s, e.operands[2])
              ELSE AsignResult("Panic", <<>>, NoExpr)
         ELSE AsignResult("None", <<>>, NoExpr)

-----------------------------------------------------------------------------
(* main (src/main.rs:156-178) *)

\* an insert that overwrites every entry
InsertAll(env, name, v) == [n \in DOMAIN env \cup {name} |-> v]

\* HashMap::insert
Insert(env, name, v) ==
    [n \in DOMAIN env \cup {name} |-> IF n = name THEN v ELSE env[n]]

RECURSIVE Trim(_)
\* str::trim
Trim(s) ==
    IF s = <<>> THEN s
    ELSE IF is_ascii_whitespace(s[1]) THEN Trim(Tail(s))
    ELSE IF is_ascii_whitespace(s[Len(s)]) THEN Trim(SubSeq(s, 1, Len(s) - 1))
    ELSE s

\* lines 170-176: the line is parsed; assign, or evaluate and print
Dispatch ==
    /\ pc = "dispatch"
    /\ LET a == is_asign(expr)
           value == eval(IF a.kind = "Some" THEN a.rhs ELSE expr, variables)
       IN  IF a.kind = "Panic"
           THEN Panic("unreachable") /\ UNCHANGED <<variables, out>>
           ELSE IF value.st # "ok"
           THEN Panic(value.st) /\ UNCHANGED <<variables, out>>
           ELSE /\ pc' = "read"
                /\ UNCHANGED err
                /\ IF a.kind = "Some"
                   THEN variables' = Insert(variables, a.name, value.v) /\ UNCHANGED out
                   ELSE out' = Append(out, value.v) /\ UNCHANGED variables
    /\ UNCHANGED <<input, tokens, stack, ret, expr, nlines, calls>>
    /\ LexerIdle

-----------------------------------------------------------------------------
(* The lines fed to the program *)

\* every line of at most n characters of chars
Lines(chars, n) == UNION {[1..k -> chars] : k \in 0..n}

LineChars == {"1", "x", "+", "=", ".", "(", ")", " "}
SpecLines == Lines(LineChars, MaxLen)

\* the operators infix_binding_power knows
TableOps == {"=", "+", "-", "*", "/", "^", "sqrt", "."}
AtomTexts == Lines({"1", "x"}, MaxAtomLen) \ {<<>>}

\* a op1 b op2 c, a op1 (b op2 c) and (a op1 b) op2 c
ThreeAtomLines ==
    {a \o <<op1>> \o b \o <<op2>> \o c :
        a \in AtomTexts, b \in AtomTexts, c \in AtomTexts,
        op1 \in TableOps, op2 \in TableOps}
ParenLines ==
    {a \o <<op1, "(">> \o b \o <<op2>> \o c \o <<")">> :
        a \in AtomTexts, b \in AtomTexts, c \in AtomTexts,
        op1 \in TableOps, op2 \in TableOps}
    \cup
    {<<"(">> \o a \o <<op1>> \o b \o <<")", op2>> \o c :
        a \in AtomTexts, b \in AtomTexts, c \in AtomTexts,
        op1 \in TableOps, op2 \in TableOps}

ArithChars == {"2", "3", "+", "-", "*", "^", "(", ")"}
\* the arithmetic lines that begin with a digit or "(" and end with a digit
\* or ")", as every well-formed expression does
ArithLines ==
    {l \in Lines(ArithChars, 1) : l # <<>>}
    \cup
    {<<a>> \o m \o <<b>> :
        a \in (ArithChars \cap Digits) \cup {"("},
        m \in Lines(ArithChars, MaxArithLen - 2),
        b \in (ArithChars \cap Digits) \cup {")"}}

\* 1+2*3, (1+2)*3, 1-2-3 and 2^3^2, the examples of spec 8
ExampleLines ==
    {<<"1", "+", "2", "*", "3">>, <<"(", "1", "+", "2", ")", "*", "3">>,
     <<"1", "-", "2", "-", "3">>, <<"2", "^", "3", "^", "2">>}

ExprLines == ThreeAtomLines \cup ParenLines \cup ArithLines \cup ExampleLines

\* the lines of a session: every short line of x, 1 and =, and
\* exit, 1=2, x+1, 1+1, (x)+1 and (x)1
SessionChars == {"x", "1", "="}
SessionLines ==
    Lines(SessionChars, MaxLineLen)
    \cup {<<"e", "x", "i", "t">>, <<"1", "=", "2">>, <<"x", "+", "1">>,
          <<"1", "+", "1">>, <<"(", "x", ")", "+", "1">>, <<"(", "x", ")", "1">>}

LexChars == {"1", "a", "+", "(", " "}
LexLines == Lines(LexChars, MaxLexLen)

-----------------------------------------------------------------------------
(* main, lines 158-169: read a line; "exit" leaves the loop, any other     *)
(* line goes to Expression::from_str, which builds the lexer and calls     *)
(* parse_expression(&mut lexer, 0.0).                                      *)

NoVariables == [n \in {} |-> Other]

FromStr(line) ==
    /\ tokens' = LexerNew(line)
    /\ stack' = <<Frame(ZeroBp)>>
    /\ calls' = 1
    /\ pc' = "parse"

ReadLine ==
    /\ pc = "read"
    /\ nlines < MaxLines
    /\ \E line \in SessionLines :
          /\ input' = line
          /\ nlines' = nlines + 1
          /\ IF Trim(line) = <<"e", "x", "i", "t">>
             THEN pc' = "exit" /\ UNCHANGED <<tokens, stack, calls>>
             ELSE FromStr(line)
    /\ UNCHANGED <<ret, expr, err, variables, out>>
    /\ LexerIdle

-----------------------------------------------------------------------------
(* The lexer on its own: any interleaving of peek and next calls *)

\* Lexer::peek (src/main.rs:31-33)
CallPeek ==
    /\ pc = "lexer"
    /\ lastCall' = "peek"
    /\ lastRet' = LexerPeek(tokens)
    /\ UNCHANGED <<input, tokens, stack, ret, expr, pc, err, variables, out, nlines,
                   calls, consumed>>

\* Lexer::next (src/main.rs:27-29)
CallNext ==
    /\ pc = "lexer"
    /\ lastCall' = "next"
    /\ lastRet' = LexerNext(tokens)
    /\ tokens' = LexerPop(tokens)
    /\ consumed' = IF Len(consumed) <= Len(input) THEN Append(consumed, LexerNext(tokens))
                   ELSE consumed
    /\ UNCHANGED <<input, stack, ret, expr, pc, err, variables, out, nlines, calls>>

-----------------------------------------------------------------------------
(* Specifications *)

Idle ==
    /\ ret = NoExpr
    /\ expr = NoExpr
    /\ err = ""
    /\ variables = NoVariables
    /\ out = <<>>
    /\ lastCall = "new"
    /\ lastRet = Eof
    /\ consumed = <<>>

\* one line, just handed to Expression::from_str
InitLine(lines) ==
    /\ input \in lines
    /\ tokens = LexerNew(input)
    /\ stack = <<Frame(ZeroBp)>>
    /\ calls = 1
    /\ pc = "parse"
    /\ nlines = 1
    /\ Idle

NextLine == parse_expression \/ Dispatch

\* the program on one line of SpecLines
Init == InitLine(SpecLines)
Spec == Init /\ [][NextLine]_vars

\* the program on one short line, and it keeps running: it is sequential
\* and never waits
InitFair == InitLine(Lines(LineChars, MaxFairLen))
FairSpec == InitFair /\ [][NextLine]_vars /\ WF_vars(NextLine)

\* the program on one line of ExprLines
InitExpr == InitLine(ExprLines)
SpecExpr == InitExpr /\ [][NextLine]_vars

\* a session: main from its start, reading up to MaxLines lines
InitSession ==
    /\ input = <<>>
    /\ tokens = <<>>
    /\ stack = <<>>
    /\ calls = 0
    /\ pc = "read"
    /\ nlines = 0
    /\ Idle
NextSession == ReadLine \/ parse_expression \/ Dispatch
SpecSession == InitSession /\ [][NextSession]_vars

\* a lexer just built by Lexer::new, then peek and next in any order
InitLexer ==
    /\ input \in LexLines
    /\ tokens = LexerNew(input)
    /\ stack = <<>>
    /\ calls = 0
    /\ pc = "lexer"
    /\ nlines = 0
    /\ Idle
NextLexer == CallPeek \/ CallNext
SpecLexer == InitLexer /\ [][NextLexer]_vars

-----------------------------------------------------------------------------
(* Reading a line as text, independently of the parser *)

IsAtomText(s) == s # <<>> /\ \A i \in 1..Len(s) : s[i] \in Digits \cup Letters

\* the ways to read a line as  a op1 b op2 c  with atoms a, b, c
ThreeAtomSplits(line) ==
    {p \in (1..Len(line)) \X (1..Len(line)) :
        /\ p[1] < p[2]
        /\ line[p[1]] \in TableOps
        /\ line[p[2]] \in TableOps
        /\ IsAtomText(SubSeq(line, 1, p[1] - 1))
        /\ IsAtomText(SubSeq(line, p[1] + 1, p[2] - 1))
        /\ IsAtomText(SubSeq(line, p[2] + 1, Len(line)))}

\* (op2 (op1 a b) c)
GroupedLeft(line, p) ==
    ExprOperation(line[p[2]],
        ExprOperation(line[p[1]], ExprAtom(SubSeq(line, 1, p[1] - 1)),
                                  ExprAtom(SubSeq(line, p[1] + 1, p[2] - 1))),
        ExprAtom(SubSeq(line, p[2] + 1, Len(line))))

\* (op1 a (op2 b c))
GroupedRight(line, p) ==
    ExprOperation(line[p[1]],
        ExprAtom(SubSeq(line, 1, p[1] - 1)),
        ExprOperation(line[p[2]], ExprAtom(SubSeq(line, p[1] + 1, p[2] - 1)),
                                  ExprAtom(SubSeq(line, p[2] + 1, Len(line)))))

\* the precedence levels and associativities of the table of spec 4.2
Level(op) ==
    CASE op = "=" -> 1
      [] op \in {"+", "-"} -> 2
      [] op \in {"*", "/"} -> 3
      [] op \in {"^", "sqrt"} -> 4
      [] op = "." -> 5
RightAssociative(op) == op \in {"=", "^", "sqrt"}

ParsePanics == {"bad token", "bad op", "assertion failed"}

-----------------------------------------------------------------------------
\* C1: a line  a op1 b op2 c  of three atoms and two table operators parses,
\* and parses to (op2 (op1 a b) c) when op2 has lower precedence than op1 or
\* both are on one left-associative level, and to (op1 a (op2 b c)) when op2
\* has higher precedence than op1 or both are on one right-associative level.
C1_Grouping ==
    \A p \in ThreeAtomSplits(input) :
        LET op1 == input[p[1]]
            op2 == input[p[2]]
            left == \/ Level(op2) < Level(op1)
                    \/ Level(op2) = Level(op1) /\ ~RightAssociative(op1)
        IN  /\ err \notin ParsePanics
            /\ pc = "dispatch" =>
                  expr = IF left THEN GroupedLeft(input, p) ELSE GroupedRight(input, p)

\* 2^3^2 has been parsed, as (^ 2 (^ 3 2))
C1_Witness ==
    /\ pc = "dispatch"
    /\ input = <<"2", "^", "3", "^", "2">>
    /\ expr = ExprOperation("^", ExprAtom(<<"2">>),
                  ExprOperation("^", ExprAtom(<<"3">>), ExprAtom(<<"2">>)))

-----------------------------------------------------------------------------
\* C9, as claimed: in a line  a op b op c  an operator whose right binding
\* power is less than its left one groups to the left, and one whose right
\* binding power is greater than its left one groups to the right.
C9_AsClaimed ==
    \A p \in ThreeAtomSplits(input) :
        (pc = "dispatch" /\ input[p[1]] = input[p[2]]) =>
            LET bp == infix_binding_power(input[p[1]])
            IN  /\ bp.r < bp.l => expr = GroupedLeft(input, p)
                /\ bp.r > bp.l => expr = GroupedRight(input, p)

\* C9, amended: in a line  a op b op c  an operator whose right binding power
\* is less than its left one (=, ^, the root sign) groups to the right, and
\* one whose right binding power is greater than its left one groups to the
\* left.
C9_Associativity ==
    \A p \in ThreeAtomSplits(input) :
        (pc = "dispatch" /\ input[p[1]] = input[p[2]]) =>
            LET bp == infix_binding_power(input[p[1]])
            IN  /\ bp.r < bp.l => expr = GroupedRight(input, p)
                /\ bp.r > bp.l => expr = GroupedLeft(input, p)

\* 1-2-3 has been parsed, as (- (- 1 2) 3), and - has right power > left power
C9_Witness ==
    /\ pc = "dispatch"
    /\ input = <<"1", "-", "2", "-", "3">>
    /\ infix_binding_power("-").r > infix_binding_power("-").l
    /\ expr = ExprOperation("-",
                  ExprOperation("-", ExprAtom(<<"1">>), ExprAtom(<<"2">>)),
                  ExprAtom(<<"3">>))

-----------------------------------------------------------------------------
(* Conventional arithmetic on a line of digits, + - * ^ and parentheses,   *)
(* defined by splitting the text: a sum splits at its last + or - outside  *)
(* parentheses, a product at its last *, a power at its first ^.  ok is    *)
(* FALSE when the text is not a well-formed expression, or when an         *)
(* exponent is negative or a value leaves the integers of magnitude at     *)
(* most 2^24, which are not the small cases the claim is about.            *)

Ref(n) == [ok |-> Abs(n) <= ExactMax, n |-> IF Abs(n) <= ExactMax THEN n ELSE 0]
NoRef == [ok |-> FALSE, n |-> 0]

\* the nesting depth of position i of the text s
ParenDepth(s, i) ==
    Cardinality({j \in 1..(i - 1) : s[j] = "("}) - Cardinality({j \in 1..(i - 1) : s[j] = ")"})

Outside(s, ops) == {i \in 1..Len(s) : s[i] \in ops /\ ParenDepth(s, i) = 0}
Last(S) == CHOOSE i \in S : \A j \in S : j <= i
First(S) == CHOOSE i \in S : \A j \in S : i <= j

RECURSIVE RefNumber(_)
RefNumber(s) ==
    IF s = <<>> THEN Ref(0)
    ELSE LET hi == RefNumber(SubSeq(s, 1, Len(s) - 1))
         IN  IF ~hi.ok \/ hi.n > ExactMax \div 10 THEN NoRef
             ELSE Ref(10 * hi.n + DigitValue(s[Len(s)]))

RECURSIVE RefRepeat(_, _)
RefRepeat(a, e) ==
    IF e = 0 THEN Ref(1)
    ELSE LET r == RefRepeat(a, e - 1)
         IN  IF ~r.ok THEN NoRef
             ELSE IF Abs(r.n) > ExactMax \div Abs(a) THEN NoRef
             ELSE Ref(r.n * a)

\* a to the e, e >= 0; 2 to the 25th is out of range already
RefPower(a, e) ==
    IF e = 0 THEN Ref(1)
    ELSE IF a \in {0, 1} THEN Ref(a)
    ELSE IF a = -1 THEN Ref(IF e % 2 = 0 THEN 1 ELSE -1)
    ELSE IF e > 24 THEN NoRef
    ELSE RefRepeat(a, e)

RefTimes(a, b) ==
    IF ~a.ok \/ ~b.ok THEN NoRef
    ELSE IF b.n # 0 /\ Abs(a.n) > ExactMax \div Abs(b.n) THEN NoRef
    ELSE Ref(a.n * b.n)

RECURSIVE RefExpr(_), RefTerm(_), RefPow(_), RefBase(_)

RefExpr(s) ==
    IF Outside(s, {"+", "-"}) = {} THEN RefTerm(s)
    ELSE LET i == Last(Outside(s, {"+", "-"}))
             l == RefExpr(SubSeq(s, 1, i - 1))
             r == RefTerm(SubSeq(s, i + 1, Len(s)))
         IN  IF ~l.ok \/ ~r.ok THEN NoRef
             ELSE IF s[i] = "+" THEN Ref(l.n + r.n) ELSE Ref(l.n - r.n)

RefTerm(s) ==
    IF Outside(s, {"*"}) = {} THEN RefPow(s)
    ELSE LET i == Last(Outside(s, {"*"}))
         IN  RefTimes(RefTerm(SubSeq(s, 1, i - 1)), RefPow(SubSeq(s, i + 1, Len(s))))

RefPow(s) ==
    IF Outside(s, {"^"}) = {} THEN RefBase(s)
    ELSE LET i == First(Outside(s, {"^"}))
             b == RefBase(SubSeq(s, 1, i - 1))
             e == RefPow(SubSeq(s, i + 1, Len(s)))
         IN  IF ~b.ok \/ ~e.ok \/ e.n < 0 THEN NoRef ELSE RefPower(b.n, e.n)

RefBase(s) ==
    IF s = <<>> THEN NoRef
    ELSE IF \A i \in 1..Len(s) : s[i] \in Digits THEN RefNumber(s)
    ELSE IF /\ s[1] = "("
            /\ s[Len(s)] = ")"
            /\ \A i \in 2..Len(s) : ParenDepth(s, i) > 0
            /\ ParenDepth(s, Len(s) + 1) = 0
         THEN RefExpr(SubSeq(s, 2, Len(s) - 1))
    ELSE NoRef

ArithmeticText(s) == \A i \in 1..Len(s) : s[i] \in Digits \cup {"+", "-", "*", "^", "(", ")"}

-----------------------------------------------------------------------------
\* C2: on a well-formed line of small integer literals, + - * ^ and
\* parentheses the program does not panic, evaluate(parse(line), {}) is the
\* value of the line under conventional arithmetic, and that is what is
\* printed.
C2_Arithmetic ==
    (pc \in {"dispatch", "read", "panic"} /\ ArithmeticText(input) /\ RefExpr(input).ok) =>
        /\ pc # "panic"
        /\ pc = "dispatch" => eval(expr, NoVariables) = Ok(IntV(RefExpr(input).n))
        /\ pc = "read" => out = <<IntV(RefExpr(input).n)>>

\* 2^3^2 has been evaluated and 512 printed
C2_Witness ==
    /\ pc = "read"
    /\ input = <<"2", "^", "3", "^", "2">>
    /\ RefExpr(input) = Ref(512)
    /\ out = <<IntV(512)>>

-----------------------------------------------------------------------------
\* C7: is_asign of a parsed expression returns the name and the right operand
\* when the root is = with an atom on its left, panics when the root is =
\* with anything else on its left, and returns None otherwise, whatever lies
\* below the root; main panics on a line exactly when is_asign does.
C7_IsAsign ==
    /\ pc = "dispatch" =>
          LET r == is_asign(expr)
              root == expr.t = "Operation" /\ expr.op = "="
          IN  /\ (root /\ expr.operands[1].t = "Atom") =>
                    r = AsignResult("Some", expr.operands[1].s, expr.operands[2])
              /\ (root /\ expr.operands[1].t # "Atom") => r.kind = "Panic"
              /\ ~root => r.kind = "None"
    /\ (pc = "panic" /\ err = "unreachable") =>
          expr.t = "Operation" /\ expr.op = "=" /\ expr.operands[1].t # "Atom"
    /\ (pc \in {"read", "panic"} /\ expr.t = "Operation" /\ expr.op = "="
          /\ expr.operands[1].t # "Atom") => err = "unreachable"

\* 1+x=1 parsed to (= (+ 1 x) 1) and is_asign panicked
C7_Witness ==
    /\ pc = "panic"
    /\ err = "unreachable"
    /\ input = <<"1", "+", "x", "=", "1">>
    /\ expr = ExprOperation("=",
                  ExprOperation("+", ExprAtom(<<"1">>), ExprAtom(<<"x">>)),
                  ExprAtom(<<"1">>))

-----------------------------------------------------------------------------
\* C5: the evaluator never panics with "Bad operator" on a line that parse
\* accepted, top-level assignments being taken by is_asign first.
C5_NoBadOperator == ~(pc = "panic" /\ err = "Bad operator")

-----------------------------------------------------------------------------
\* C6: when the top-level parse_expression returns an Expression, no token
\* of the line is left in the lexer.
C6_ConsumesAll == pc = "dispatch" => tokens = <<>>

-----------------------------------------------------------------------------
TokenCount == Len(LexerNew(input))

C10_CallsBounded == calls <= TokenCount + 1 /\ Len(stack) <= TokenCount + 1

C10_Consumes ==
    /\ Len(stack') > Len(stack) => Len(tokens') < Len(tokens)
    /\ (Running("atom") /\ top'.at = "atom") => Len(tokens') < Len(tokens)
    /\ (Running("start") /\ pc' = "parse") => Len(tokens') < Len(tokens)
    /\ (Running("loop") /\ pc' = "parse" /\ Len(stack') >= Len(stack)) =>
          Len(tokens') < Len(tokens)

\* C10: parsing a line ends, in an Expression or in a panic; a call of
\* parse_expression and an iteration of the atom loop each take a token
\* before going on, an iteration of the operator loop that goes on takes
\* one too, and neither the number of calls nor the depth of the recursion
\* exceeds the number of tokens of the line plus one.
C10_Terminates ==
    /\ []C10_CallsBounded
    /\ [][C10_Consumes]_vars
    /\ <>(pc # "parse")

\* the parse of (x) has returned, after two calls
C10_Witness ==
    /\ pc = "dispatch"
    /\ input = <<"(", "x", ")">>
    /\ tokens = <<>>
    /\ calls = 2

-----------------------------------------------------------------------------
(* C3 and C4 are about the step main takes on a parsed line, Dispatch *)

\* the ways to read a line as  name=rhs  with an atom text name
AssignSplits(line) ==
    {i \in 1..Len(line) : line[i] = "=" /\ IsAtomText(SubSeq(line, 1, i - 1))}

\* the line name=rhs, once processed, leaves name mapped to the value of rhs
C3_Stores ==
    \A i \in AssignSplits(input) :
        (pc = "dispatch" /\ pc' = "read") =>
            LET name == SubSeq(input, 1, i - 1)
                rhs == SubSeq(input, i + 1, Len(input))
            IN  /\ expr.t = "Operation" /\ expr.op = "="
                /\ expr.operands[1] = ExprAtom(name)
                /\ name \in DOMAIN variables'
                /\ variables'[name] = eval(expr.operands[2], variables).v
                /\ AllDigits(rhs) => variables'[name] = Decimal(rhs)
                /\ out' = out

\* a line that is the atom name, or name+1, with name in the environment,
\* prints the value stored for name, or that value plus one, and leaves the
\* environment as it is
C3_ReadsBack(names) ==
    \A name \in DOMAIN variables \cap names :
        /\ (pc = "dispatch" /\ input = name) =>
              /\ pc' = "read"
              /\ out' = Append(out, variables[name])
              /\ variables' = variables
        /\ (pc = "dispatch" /\ input = name \o <<"+", "1">>) =>
              /\ pc' = "read"
              /\ out' = Append(out, F32Add(variables[name], IntV(1)))
              /\ variables' = variables

AtomTextsOf(env) == DOMAIN env
NamesOf(env) == {n \in DOMAIN env : ~ParseF32(n).ok}

\* C3, as claimed: for every atom text name the line name=rhs leaves name
\* mapped to the value v of rhs, and a later line that evaluates the atom
\* name uses v.
C3_AsClaimed == [][C3_Stores /\ C3_ReadsBack(AtomTextsOf(variables))]_vars

\* C3, amended: for every atom text name the line name=rhs leaves name mapped
\* to the value v of rhs, and when name does not parse as a floating-point
\* literal a later line that evaluates the atom name uses v.
C3_ReadBack == [][C3_Stores /\ C3_ReadsBack(NamesOf(variables))]_vars

\* x=1 then x+1: 2 is printed and x is still mapped to 1
C3_Witness ==
    /\ pc = "read"
    /\ input = <<"x", "+", "1">>
    /\ variables = [n \in {<<"x">>} |-> IntV(1)]
    /\ out = <<IntV(2)>>

-----------------------------------------------------------------------------
C4_Step ==
    variables' # variables =>
        /\ pc = "dispatch" /\ pc' = "read"
        /\ expr.t = "Operation" /\ expr.op = "="
        /\ expr.operands[1].t = "Atom"
        /\ eval(expr.operands[2], variables).st = "ok"
        /\ DOMAIN variables' = DOMAIN variables \cup {expr.operands[1].s}
        /\ \A n \in DOMAIN variables \ {expr.operands[1].s} : variables'[n] = variables[n]
        /\ out' = out

\* C4: a step changes the environment only when it processes a line parsed
\* to (= name rhs) with an atom name and a right-hand side that evaluates;
\* it then sets the entry of name, leaves every other entry as it was and
\* prints nothing.
C4_Frame == [][C4_Step]_vars

\* x=1 then 1=2: the second line added the entry of 1 and left that of x
C4_Witness ==
    /\ pc = "read"
    /\ input = <<"1", "=", "2">>
    /\ variables = [n \in {<<"x">>, <<"1">>} |-> IF n = <<"x">> THEN IntV(1) ELSE IntV(2)]

-----------------------------------------------------------------------------
\* the tokens of a line in their order
LexerNewUnreversed(line) ==
    LET kept == SelectSeq(line, LAMBDA c : ~is_ascii_whitespace(c))
    IN  [i \in 1..Len(kept) |-> ClassifyChar(kept[i])]

C8_Order ==
    LET line == LexerNewUnreversed(input)
    IN  /\ Len(consumed) + Len(tokens) >= Len(line)
        /\ \A i \in 1..Len(consumed) :
              consumed[i] = IF i <= Len(line) THEN line[i] ELSE Eof
        /\ \A i \in 1..Len(tokens) : tokens[i] = line[Len(line) + 1 - i]

C8_Calls ==
    /\ lastCall' = "peek" => tokens' = tokens
    /\ (lastCall = "peek" /\ tokens' = tokens) => lastRet' = lastRet
    /\ (lastCall = "peek" /\ lastCall' = "next") => lastRet' = lastRet
    /\ (lastCall' = "next" /\ tokens # <<>>) =>
          /\ Len(tokens') = Len(tokens) - 1
          /\ lastRet' # Eof
    /\ tokens = <<>> => (lastRet' = Eof /\ tokens' = <<>>)

\* C8: peek leaves the tokens as they are and two peeks in a row return the
\* same token; next returns what the peek before it returned; next on a
\* lexer that is not empty removes exactly one token, and the tokens next
\* returns are those of the line in their order; on an empty lexer peek and
\* next return Eof and leave it empty.
C8_Cursor == []C8_Order /\ [][C8_Calls]_vars

\* on the line "1 +": peek, then next twice, then a next on the empty lexer
C8_Witness ==
    /\ input = <<"1", " ", "+">>
    /\ consumed = <<Atom("1"), Op("+"), Eof>>
    /\ tokens = <<>>
    /\ lastCall = "next"
    /\ lastRet = Eof

=============================================================================
